---- MODULE Spec2Model ----
(***************************************************************************)
(* derive_builder: #[derive(Builder)] generates one setter per named field *)
(* of a struct.  The model covers the procedural macro entry point         *)
(* (derive), the attribute whitelist (filter_attr), the code synthesis     *)
(* (builder_for_struct) and the behaviour of the three generated setter    *)
(* templates when they are called.                                         *)
(***************************************************************************)
EXTENDS Integers, Sequences, FiniteSets, TLC

VARIABLES
    logger,     \* the process-wide logger slot of the `log` crate is occupied
    input,      \* the syn::MacroInput of the derive call in progress
    synth,      \* what builder_for_struct produced for that call
    out,        \* what derive handed back to the compiler for that call
    unit,       \* the compiled impl block whose setters are being called
    heap,       \* the struct values that exist at run time
    hist,       \* per struct value, the setter calls that produced it
    last        \* the most recent setter call

vars == <<logger, input, synth, out, unit, heap, hist, last>>

(***************************************************************************)
(* Bounds                                                                  *)
(***************************************************************************)
MaxFields == 2      \* named fields per struct
MaxAttrs  == 2      \* attributes on the fields of one struct, in total
MaxObjs   == 5      \* struct values alive or moved-from at run time
MaxChain  == 3      \* setter calls behind one struct value

(***************************************************************************)
(* Small helpers                                                           *)
(***************************************************************************)
SeqsUpTo(S, n) == UNION {[1..k -> S] : k \in 0..n}

RECURSIVE Concat(_, _)
Concat(ss, k) == IF k = 0 THEN <<>> ELSE Concat(ss, k - 1) \o ss[k]

IsInjective(s) == \A i, j \in DOMAIN s : s[i] = s[j] => i = j

(***************************************************************************)
(* syn::Attribute                                                          *)
(***************************************************************************)
Attr(style, form, ident, nested, sugared, text) ==
    [style |-> style,
     value |-> [form |-> form, ident |-> ident, nested |-> nested],
     is_sugared_doc |-> sugared,
     text |-> text]

DocComment == Attr("Outer", "NameValue", "doc", <<>>, TRUE,  "/// ipsum may be any String")
DocAttr    == Attr("Outer", "NameValue", "doc", <<>>, FALSE, "#[doc = estimated amount of work]")
CfgAttr    == Attr("Outer", "List", "cfg", <<"target_os">>, FALSE, "#[cfg(target_os = macos)]")
AllowAttr  == Attr("Outer", "List", "allow", <<"non_snake_case">>, FALSE, "#[allow(non_snake_case)]")
SetterAttr == Attr("Outer", "List", "setter", <<"private">>, FALSE, "#[setter(private)]")
InlineAttr == Attr("Outer", "Word", "inline", <<>>, FALSE, "#[inline]")
AllowDeadCode == Attr("Outer", "List", "allow", <<"dead_code">>, FALSE, "#[allow(dead_code)]")

FieldAttrPool == {DocComment, DocAttr, CfgAttr, AllowAttr, SetterAttr, InlineAttr}

Setters(words) == Attr("Outer", "List", "setters", words, FALSE, "#[setters(..)]")
DisableMarker  == Attr("Outer", "Word", "setters_disabled", <<>>, FALSE, "#[setters_disabled]")
DeriveAttr     == Attr("Outer", "List", "derive", <<"Builder">>, FALSE, "#[derive(Builder)]")

\* the record-level attribute lists the front end hands over
RecordAttrLists ==
    { <<>>,
      <<DeriveAttr>>,
      <<Setters(<<"owned">>)>>,
      <<Setters(<<"mutable", "private">>)>>,
      <<Setters(<<"owned", "immutable">>)>>,
      <<DisableMarker>>,
      <<Setters(<<"bogus">>)>> }

(***************************************************************************)
(* options::Options                                                        *)
(* lib.rs only declares `mod options` and uses Options::from,              *)
(* setter_enabled, setter_pattern and setter_visibility; the resolution    *)
(* below follows the design specification (defaults, last key wins, an     *)
(* unknown key is an error, a separate marker disables the setters).       *)
(***************************************************************************)
DefaultOptions ==
    [ok |-> TRUE, setter_enabled |-> TRUE,
     setter_pattern |-> "Mutable", setter_visibility |-> "Public"]

ConfigError ==
    [ok |-> FALSE, setter_enabled |-> FALSE,
     setter_pattern |-> "Mutable", setter_visibility |-> "Public"]

\* one key of a `setters` directive; a later key overrides an earlier one
ApplyWord(o, w) ==
    IF ~o.ok THEN o
    ELSE IF w = "owned"     THEN [o EXCEPT !.setter_pattern = "Owned"]
    ELSE IF w = "mutable"   THEN [o EXCEPT !.setter_pattern = "Mutable"]
    ELSE IF w = "immutable" THEN [o EXCEPT !.setter_pattern = "Immutable"]
    ELSE IF w = "public"    THEN [o EXCEPT !.setter_visibility = "Public"]
    ELSE IF w = "private"   THEN [o EXCEPT !.setter_visibility = "Private"]
    ELSE ConfigError

RECURSIVE ApplyWords(_, _, _)
ApplyWords(o, ws, k) ==
    IF k = 0 THEN o ELSE ApplyWord(ApplyWords(o, ws, k - 1), ws[k])

ApplyAttr(o, a) ==
    IF ~o.ok THEN o
    ELSE IF a.value.form = "List" /\ a.value.ident = "setters"
         THEN ApplyWords(o, a.value.nested, Len(a.value.nested))
    ELSE IF a = DisableMarker THEN [o EXCEPT !.setter_enabled = FALSE]
    ELSE o

RECURSIVE OptionsFromUpTo(_, _)
OptionsFromUpTo(attrs, k) ==
    IF k = 0 THEN DefaultOptions
    ELSE ApplyAttr(OptionsFromUpTo(attrs, k - 1), attrs[k])

\* Options::from(ast.attrs)
OptionsFrom(attrs) == OptionsFromUpTo(attrs, Len(attrs))

(***************************************************************************)
(* syn::MacroInput                                                         *)
(***************************************************************************)
FieldNames == {"ipsum", "dolor", "sit"}

NoGenerics == [params |-> <<>>, where_clause |-> <<>>]
GenericsTBound ==
    [params |-> <<[ident |-> "T", bounds |-> <<"Clone">>]>>,
     where_clause |-> <<"T: Default">>]
GenericsVALUE ==
    [params |-> <<[ident |-> "VALUE", bounds |-> <<>>]>>, where_clause |-> <<>>]

\* struct name, generics and the declared type of each field name
RecordHeads ==
    { [ident |-> "Lorem", generics |-> NoGenerics,
       types |-> [n \in FieldNames |-> IF n = "ipsum" THEN "String" ELSE IF n = "dolor" THEN "i64" ELSE "bool"]],
      [ident |-> "GenLorem", generics |-> GenericsTBound,
       types |-> [n \in FieldNames |-> IF n = "ipsum" THEN "String" ELSE IF n = "dolor" THEN "T" ELSE "bool"]],
      [ident |-> "ValLorem", generics |-> GenericsVALUE,
       types |-> [n \in FieldNames |-> IF n = "ipsum" THEN "String" ELSE IF n = "dolor" THEN "VALUE" ELSE "bool"]] }

FieldAttrLists == SeqsUpTo(FieldAttrPool, MaxAttrs)

NameLists == {ns \in SeqsUpTo(FieldNames, MaxFields) : IsInjective(ns)}

\* the attributes of `flat` that belong to field i under the assignment own
RECURSIVE OwnedBy(_, _, _, _)
OwnedBy(flat, own, i, k) ==
    IF k = 0 THEN <<>>
    ELSE IF own[k] = i THEN Append(OwnedBy(flat, own, i, k - 1), flat[k])
    ELSE OwnedBy(flat, own, i, k - 1)

\* every way to write at most MaxAttrs attributes in front of n fields
AttrSplits(n) ==
    UNION { { [i \in 1..n |-> OwnedBy(flat, own, i, Len(flat))] :
              own \in {o \in [1..Len(flat) -> 1..n] :
                          \A j, k \in 1..Len(flat) : j <= k => o[j] <= o[k]} } :
            flat \in FieldAttrLists }

\* the field lists of a braced struct, before their types are known
FieldShapes ==
    UNION { { [i \in 1..Len(ns) |-> [ident |-> ns[i], attrs |-> as[i]]] :
              as \in AttrSplits(Len(ns)) } :
            ns \in NameLists }

FieldLists(head) ==
    { [i \in 1..Len(sh) |->
         [ident |-> sh[i].ident, ty |-> head.types[sh[i].ident], attrs |-> sh[i].attrs]] :
      sh \in FieldShapes }

Bodies(head) ==
    { [kind |-> "Tuple", fields |-> <<>>], [kind |-> "Unit", fields |-> <<>>] }
    \cup { [kind |-> "Struct", fields |-> fs] : fs \in FieldLists(head) }

MkRecord(head, ra, b) ==
    [ident |-> head.ident, attrs |-> ra, generics |-> head.generics, body |-> b]

(***************************************************************************)
(* filter_attr                                                             *)
(***************************************************************************)
filter_attr(attr) ==
    IF attr.style # "Outer" THEN FALSE
    ELSE IF attr.is_sugared_doc
         THEN attr.value.form = "NameValue" /\ attr.value.ident = "doc"
         ELSE attr.value.form = "List" /\ attr.value.ident \in {"cfg", "allow"}

\* f.attrs.iter().filter(|a| filter_attr(a)): the kept attributes, in order
RECURSIVE KeptAttrs(_, _)
KeptAttrs(attrs, k) ==
    IF k = 0 THEN <<>>
    ELSE IF filter_attr(attrs[k]) THEN Append(KeptAttrs(attrs, k - 1), attrs[k])
    ELSE KeptAttrs(attrs, k - 1)

(***************************************************************************)
(* builder_for_struct                                                      *)
(***************************************************************************)
NoTokens == [kind |-> "empty"]

Panic(msg) == [kind |-> "panic", msg |-> msg]

\* receiver of the setter in each arm of `match *setter_pattern`
SelfArg_MutableByValue(pattern) ==
    CASE pattern = "Owned"     -> "self"
      [] pattern = "Mutable"   -> "self"
      [] pattern = "Immutable" -> "&self"

SelfArg(pattern) ==
    CASE pattern = "Owned"     -> "self"
      [] pattern = "Mutable"   -> "&mut self"
      [] pattern = "Immutable" -> "&self"

\* return type of the setter in each arm
ReturnTy(pattern) ==
    CASE pattern = "Owned"     -> "Self"
      [] pattern = "Mutable"   -> "&mut Self"
      [] pattern = "Immutable" -> "Self"

\* right-hand side of `let mut new = ..` in each arm
NewInit_NoClone(pattern) == "self"

NewInit(pattern) ==
    CASE pattern = "Owned"     -> "self"
      [] pattern = "Mutable"   -> "self"
      [] pattern = "Immutable" -> "self.clone()"

\* the method called on `value` in `new.#f_name = value.into()`
ValueConv_None == "none"

ValueConv == "into"

\* the three quote! templates of `match *setter_pattern`
SetterTemplate(pattern, attrs, vis, f_name, ty) ==
    [attrs    |-> attrs,
     vis      |-> vis,
     name     |-> f_name,
     generics |-> <<[ident |-> "VALUE", bound |-> [trait |-> "Into", arg |-> ty]]>>,
     self_arg |-> SelfArg(pattern),
     value_ty |-> "VALUE",
     ret      |-> ReturnTy(pattern),
     init     |-> NewInit(pattern),
     assign   |-> f_name,
     conv     |-> ValueConv,
     result   |-> "new"]

\* Generics::split_for_impl
split_for_impl_NoWhere(generics) ==
    [impl_generics |-> generics.params,
     ty_generics   |-> [i \in 1..Len(generics.params) |-> generics.params[i].ident],
     where_clause  |-> <<>>]

split_for_impl(generics) ==
    [impl_generics |-> generics.params,
     ty_generics   |-> [i \in 1..Len(generics.params) |-> generics.params[i].ident],
     where_clause  |-> generics.where_clause]

\* the closure mapped over fields.iter()
SetterFor_FieldOverride(opts, f) ==
    SetterTemplate(opts.setter_pattern,
                   KeptAttrs(f.attrs, Len(f.attrs)),
                   IF \E i \in 1..Len(f.attrs) : f.attrs[i] = SetterAttr
                   THEN "Private" ELSE opts.setter_visibility,
                   f.ident, f.ty)

SetterFor(opts, f) ==
    SetterTemplate(opts.setter_pattern,
                   KeptAttrs(f.attrs, Len(f.attrs)),
                   opts.setter_visibility, f.ident, f.ty)

\* fields.iter().map(..), spliced as #(#funcs)*
Funcs_Reversed(opts, fields) ==
    [i \in 1..Len(fields) |-> SetterFor(opts, fields[Len(fields) + 1 - i])]

Funcs(opts, fields) == [i \in 1..Len(fields) |-> SetterFor(opts, fields[i])]

\* syn::Body::Struct(syn::VariantData::Struct(ref fields)) => fields
IsBracedStruct_Any(body) == TRUE

IsBracedStruct(body) == body.kind = "Struct"

\* the final quote! { #[allow(dead_code)] impl .. { #(#funcs)* } }
ImplBlock(ast, opts) ==
    LET g == split_for_impl(ast.generics)
    IN [kind          |-> "impl",
        attrs         |-> <<AllowDeadCode>>,
        impl_generics |-> g.impl_generics,
        name          |-> ast.ident,
        ty_generics   |-> g.ty_generics,
        where_clause  |-> g.where_clause,
        funcs         |-> Funcs(opts, ast.body.fields)]

builder_for_struct_ShapeFirst(ast) ==
    LET opts == OptionsFrom(ast.attrs) IN
    IF ~opts.ok THEN Panic(<<"invalid setters option">>)
    ELSE IF ~IsBracedStruct(ast.body)
         THEN Panic(<<"#[derive(Builder)] can only be used with braced structs">>)
    ELSE IF ~opts.setter_enabled THEN NoTokens
    ELSE ImplBlock(ast, opts)

builder_for_struct(ast) ==
    LET opts == OptionsFrom(ast.attrs) IN
    IF ~opts.ok THEN Panic(<<"invalid setters option">>)
    ELSE IF ~opts.setter_enabled THEN NoTokens
    ELSE IF ~IsBracedStruct(ast.body)
         THEN Panic(<<"#[derive(Builder)] can only be used with braced structs">>)
    ELSE ImplBlock(ast, opts)

(***************************************************************************)
(* derive                                                                  *)
(***************************************************************************)
NoInput == [ident |-> "", attrs |-> <<>>, generics |-> NoGenerics,
            body |-> [kind |-> "None", fields |-> <<>>]]

NotRun == [kind |-> "notrun"]

RenderAttrs(attrs) == [i \in 1..Len(attrs) |-> attrs[i].text]

RenderParams(params) ==
    IF Len(params) = 0 THEN <<>>
    ELSE <<"<">> \o Concat([i \in 1..Len(params) |->
                              <<params[i].ident, ":">> \o params[i].bounds \o <<",">>],
                           Len(params)) \o <<">">>

RenderTyGenerics(names) ==
    IF Len(names) = 0 THEN <<>>
    ELSE <<"<">> \o Concat([i \in 1..Len(names) |-> <<names[i], ",">>], Len(names)) \o <<">">>

RenderWhere(preds) == IF Len(preds) = 0 THEN <<>> ELSE <<"where">> \o preds

RenderSetter(s) ==
    RenderAttrs(s.attrs)
    \o (IF s.vis = "Public" THEN <<"pub">> ELSE <<>>)
    \o <<"fn", s.name, "<", s.generics[1].ident, ":", s.generics[1].bound.trait,
         "<", s.generics[1].bound.arg, ">", ">",
         "(", s.self_arg, ",", "value", ":", s.value_ty, ")", "->", s.ret, "{",
         "let", "mut", "new", "=", s.init, ";",
         "new", ".", s.assign, "=", "value", ".", s.conv, "(", ")", ";",
         s.result, "}">>

\* format!("{}", result): the token text of a quote::Tokens value
Render(t) ==
    IF t.kind = "empty" THEN <<>>
    ELSE RenderAttrs(t.attrs) \o <<"impl">> \o RenderParams(t.impl_generics)
         \o <<t.name>> \o RenderTyGenerics(t.ty_generics) \o RenderWhere(t.where_clause)
         \o <<"{">>
         \o Concat([i \in 1..Len(t.funcs) |-> RenderSetter(t.funcs[i])], Len(t.funcs))
         \o <<"}">>

TokenStream(t) == [kind |-> "tokens", text |-> Render(t)]

\* env_logger::init().unwrap(); the call fails once a logger is installed
LoggerInitFails(installed) == installed

\* what derive hands back after builder_for_struct has produced r
DeriveOutcome(r) == IF r.kind = "panic" THEN r ELSE TokenStream(r)

\* the outcome of one derive call given whether a logger is installed
derive(installed, ast) ==
    IF LoggerInitFails(installed)
    THEN [synth |-> NotRun,
          out   |-> Panic(<<"called Result::unwrap() on an Err value", "SetLoggerError(())">>)]
    ELSE LET result == builder_for_struct(ast)
         IN [synth |-> result, out |-> DeriveOutcome(result)]

(***************************************************************************)
(* The generated setters at run time                                       *)
(***************************************************************************)
Objs == 1..MaxObjs

\* the concrete type a declared field type stands for in the calling program
Inst(ty) == IF ty \in {"T", "VALUE"} THEN "i64" ELSE ty

Val(ty, v) == [ty |-> ty, v |-> v]

ArgValues ==
    { Val("&str", "sit"), Val("String", "amet"),
      Val("i32", "42"), Val("bool", "true") }

\* the Into implementations the calling program can use
Convertible(from, to) ==
    \/ from = to
    \/ from = "&str" /\ to = "String"
    \/ from = "i32"  /\ to = "i64"

\* value.into()
Into(to, a) == Val(to, a.v)

DefaultValue(ty) ==
    Val(ty, CASE ty = "String" -> ""
              [] ty = "i64"    -> "0"
              [] ty = "bool"   -> "false"
              [] OTHER         -> "")

SetterNames(u) == IF u.kind = "impl" THEN {u.funcs[i].name : i \in 1..Len(u.funcs)} ELSE {}

SetterOf(u, f) == u.funcs[CHOOSE i \in 1..Len(u.funcs) : u.funcs[i].name = f]

FieldTy(u, f) == Inst(SetterOf(u, f).generics[1].bound.arg)

\* Default::default() of the struct the unit belongs to
DefaultFields(u) == [f \in SetterNames(u) |-> DefaultValue(FieldTy(u, f))]

\* a generic parameter of a method may not reuse the name of one of the impl
Shadows(u) ==
    \E i \in 1..Len(u.funcs) : \E j \in 1..Len(u.funcs[i].generics) :
        \E k \in 1..Len(u.impl_generics) :
            u.funcs[i].generics[j].ident = u.impl_generics[k].ident

Compiles(u) == u.kind = "impl" /\ ~Shadows(u)

\* the setter accepts an argument of type `from`
Accepts(u, i, from) ==
    /\ Compiles(u)
    /\ Convertible(from, Inst(u.funcs[i].generics[1].bound.arg))

NoCall == [called |-> FALSE, self |-> 0, result |-> 0, field |-> "",
           arg |-> Val("", ""), pre |-> DefaultFields(NoTokens), objs |-> 0]

FreeIds(h) == {o \in Objs : h[o].state = "free"}

LowestFree(h) == CHOOSE o \in FreeIds(h) : \A p \in FreeIds(h) : o <= p

\* the body of a generated setter, run on the struct value `o`
NeedsFresh(s) == s.init = "self.clone()" \/ s.self_arg = "self"

Target(s, h, o) == IF NeedsFresh(s) THEN LowestFree(h) ELSE o

CallHeap(s, h, o, a) ==
    LET t   == Target(s, h, o)
        ty  == Inst(s.generics[1].bound.arg)
        new == [h[o].fields EXCEPT ![s.assign] = IF s.conv = "into" THEN Into(ty, a) ELSE a]
        h1  == IF s.self_arg = "self" THEN [h EXCEPT ![o].state = "moved"] ELSE h
    IN [h1 EXCEPT ![t] = [state |-> "live", fields |-> new]]

(***************************************************************************)
(* Specification of the macro: the compiler calls derive once per          *)
(* annotated struct and splices the returned tokens before the next call.  *)
(***************************************************************************)
IdleRun ==
    /\ unit = NoTokens
    /\ heap = [o \in Objs |-> [state |-> "free", fields |-> DefaultFields(NoTokens)]]
    /\ hist = [o \in Objs |-> <<>>]
    /\ last = NoCall

Init ==
    /\ logger = FALSE
    /\ input = NoInput
    /\ synth = NotRun
    /\ out = NotRun
    /\ IdleRun

DeriveOn(ast) ==
    /\ input' = ast
    /\ logger' = TRUE
    /\ synth' = derive(logger, ast).synth
    /\ out' = derive(logger, ast).out
    /\ UNCHANGED <<unit, heap, hist, last>>

\* #[derive(Builder)] on any struct of the crate being compiled
Derive ==
    /\ input = NoInput
    /\ \E head \in RecordHeads :
         \E b \in Bodies(head), ra \in RecordAttrLists : DeriveOn(MkRecord(head, ra, b))

\* the compiler takes the outcome of the call and moves on
Expand ==
    /\ input # NoInput
    /\ input' = NoInput
    /\ synth' = NotRun
    /\ out' = NotRun
    /\ UNCHANGED <<logger, unit, heap, hist, last>>

Next ==
    \/ Derive
    \/ Expand

Spec == Init /\ [][Next]_vars

(***************************************************************************)
(* Specification of a calling program: one struct is derived, and its      *)
(* setters are called on values of the struct, starting from               *)
(* Default::default().                                                     *)
(***************************************************************************)
RunAttrLists ==
    { <<>>, <<Setters(<<"owned">>)>>, <<Setters(<<"mutable">>)>>, <<Setters(<<"immutable">>)>> }

RunNameLists == { <<"ipsum", "dolor">>, <<"sit">> }

RunBodies(head) ==
    { [kind |-> "Struct",
       fields |-> [i \in 1..Len(ns) |->
                     [ident |-> ns[i], ty |-> head.types[ns[i]], attrs |-> <<>>]]] :
      ns \in RunNameLists }

RunRecords ==
    UNION { { MkRecord(head, ra, b) : ra \in RunAttrLists, b \in RunBodies(head) } :
            head \in RecordHeads }

InitRun ==
    \E ast \in RunRecords :
        /\ logger = TRUE
        /\ input = ast
        /\ synth = derive(FALSE, ast).synth
        /\ out = derive(FALSE, ast).out
        /\ unit = synth
        /\ heap = [o \in Objs |->
                     [state |-> IF o = 1 THEN "live" ELSE "free",
                      fields |-> DefaultFields(synth)]]
        /\ hist = [o \in Objs |-> <<>>]
        /\ last = NoCall

\* builder.f(a) on the struct value o
Call(o, i, a) ==
    LET s == unit.funcs[i] IN
    /\ Compiles(unit)
    /\ heap[o].state = "live"
    /\ Len(hist[o]) < MaxChain
    /\ Accepts(unit, i, a.ty)
    /\ NeedsFresh(s) => FreeIds(heap) # {}
    /\ heap' = CallHeap(s, heap, o, a)
    /\ hist' = [hist EXCEPT ![Target(s, heap, o)] = Append(hist[o], [field |-> s.name, arg |-> a])]
    /\ last' = [called |-> TRUE, self |-> o, result |-> Target(s, heap, o),
                field |-> s.name, arg |-> a, pre |-> heap[o].fields,
                objs |-> Cardinality(Objs \ FreeIds(heap))]
    /\ UNCHANGED <<logger, input, synth, out, unit>>

NextRun ==
    \E o \in Objs, a \in ArgValues :
        \E i \in 1..(IF unit.kind = "impl" THEN Len(unit.funcs) ELSE 0) : Call(o, i, a)

SpecRun == InitRun /\ [][NextRun]_vars

(***************************************************************************)
(* Properties of the macro (specification Spec)                            *)
(***************************************************************************)
Ran == synth.kind # "notrun"

Generated == synth.kind = "impl"

options == OptionsFrom(input.attrs)

Enabled == options.ok /\ options.setter_enabled

namedFields == input.body.fields

IsDocAnnotation(a)   == a.value.form = "NameValue" /\ a.value.ident = "doc"
IsCfgAnnotation(a)   == a.value.form = "List" /\ a.value.ident = "cfg"
IsAllowAnnotation(a) == a.value.form = "List" /\ a.value.ident = "allow"
Whitelisted(a) == IsDocAnnotation(a) \/ IsCfgAnnotation(a) \/ IsAllowAnnotation(a)

RECURSIVE WhitelistedOf(_, _)
\* the whitelisted annotations among attrs[1..k], in their order
WhitelistedOf(attrs, k) ==
    IF k = 0 THEN <<>>
    ELSE IF Whitelisted(attrs[k]) THEN Append(WhitelistedOf(attrs, k - 1), attrs[k])
    ELSE WhitelistedOf(attrs, k - 1)

PatternOf(s) ==
    CASE s.self_arg = "self" /\ s.ret = "Self" /\ s.init = "self"              -> "Owned"
      [] s.self_arg = "&mut self" /\ s.ret = "&mut Self" /\ s.init = "self"    -> "Mutable"
      [] s.self_arg = "&self" /\ s.ret = "Self" /\ s.init = "self.clone()"     -> "Immutable"
      [] OTHER -> "none"

Identifies(ast, e) == \E i \in 1..Len(e.msg) : e.msg[i] = ast.ident

NoNamedFields(ast) == ast.body.kind \in {"Tuple", "Unit"} \/ Len(ast.body.fields) = 0

\* C1: the annotations on each generated setter are exactly the field's
\* annotations that are documentation (/// or #[doc = ..]), #[cfg(..)] or
\* #[allow(..)], in their original order and unmodified.
C1_WhitelistExact ==
    Generated =>
        /\ Len(synth.funcs) = Len(namedFields)
        /\ \A i \in 1..Len(synth.funcs) :
             synth.funcs[i].attrs = WhitelistedOf(namedFields[i].attrs, Len(namedFields[i].attrs))

\* C2 as stated: every record without named namedFields (tuple, unit or braced
\* with an empty field list) is rejected with an error that names the record.
C2_NoNamedFieldsRejected ==
    (Ran /\ NoNamedFields(input)) => (synth.kind = "panic" /\ Identifies(input, synth))

\* C2 amended: a tuple or unit record whose options have setters enabled is
\* rejected with a fatal error that does not name the record and no unit is
\* produced; a braced record with an empty field list and setters enabled
\* yields a unit with zero setters.
C2_NonBracedRejected ==
    (Ran /\ Enabled) =>
        /\ input.body.kind \in {"Tuple", "Unit"} =>
             /\ synth.kind = "panic"
             /\ out.kind = "panic"
             /\ ~Identifies(input, synth)
        /\ (input.body.kind = "Struct" /\ Len(namedFields) = 0) =>
             /\ Generated
             /\ Len(synth.funcs) = 0

C2_Witness ==
    /\ Ran /\ Enabled
    /\ input.body.kind = "Tuple"
    /\ synth.kind = "panic"

\* C3: with setters disabled the result is the empty unit and no error,
\* whatever the record; with setters enabled and at least one named field the
\* result is a unit with setters; the empty unit arises only when disabled.
C3_DisabledGivesEmpty ==
    Ran =>
        /\ (options.ok /\ ~options.setter_enabled) =>
             (synth.kind = "empty" /\ out.kind = "tokens" /\ out.text = <<>>)
        /\ (Enabled /\ input.body.kind = "Struct" /\ Len(namedFields) >= 1) =>
             (Generated /\ Len(synth.funcs) >= 1 /\ out.kind = "tokens" /\ out.text # <<>>)
        /\ synth.kind = "empty" => (options.ok /\ ~options.setter_enabled)

C3_Witness ==
    /\ synth.kind = "empty"
    /\ input.body.kind = "Tuple"
    /\ ~options.setter_enabled

\* C5: with setters enabled and N >= 1 named namedFields the unit holds exactly N
\* setters and the i-th setter carries the name of the i-th declared field.
C5_OneSetterPerField ==
    (Ran /\ Enabled /\ input.body.kind = "Struct" /\ Len(namedFields) >= 1) =>
        /\ Generated
        /\ Len(synth.funcs) = Len(namedFields)
        /\ \A i \in 1..Len(namedFields) :
             /\ synth.funcs[i].name = namedFields[i].ident
             /\ synth.funcs[i].assign = namedFields[i].ident

C5_Witness ==
    /\ Generated
    /\ Len(namedFields) = 2
    /\ synth.funcs[1].name = "dolor"
    /\ synth.funcs[2].name = "ipsum"

NoDirective(attrs) ==
    \A i \in 1..Len(attrs) : attrs[i].value.ident # "setters" /\ attrs[i] # DisableMarker

\* C6: without a configuration directive on the record, generation is
\* enabled and every setter takes and returns &mut self and is public.
C6_Defaults ==
    (Ran /\ NoDirective(input.attrs) /\ input.body.kind = "Struct") =>
        /\ Generated
        /\ \A i \in 1..Len(synth.funcs) :
             /\ PatternOf(synth.funcs[i]) = "Mutable"
             /\ synth.funcs[i].vis = "Public"

C6_Witness ==
    /\ Generated
    /\ NoDirective(input.attrs)
    /\ Len(synth.funcs) = 2
    /\ synth.funcs[1].self_arg = "&mut self"

\* C7: the outcome of a derive call depends only on the record it is called
\* on: it equals the outcome of the same call made as the first and only one.
C7_CallsIndependent ==
    input # NoInput => out = derive(FALSE, input).out

ArgTypes == {a.ty : a \in ArgValues}

GenericsReproduced ==
    /\ synth.impl_generics = input.generics.params
    /\ synth.where_clause = input.generics.where_clause
    /\ synth.ty_generics = [i \in 1..Len(input.generics.params) |-> input.generics.params[i].ident]
    /\ synth.name = input.ident

OwnGenericOnly(i) ==
    /\ Len(synth.funcs[i].generics) = 1
    /\ synth.funcs[i].generics[1].bound = [trait |-> "Into", arg |-> namedFields[i].ty]
    /\ synth.funcs[i].value_ty = synth.funcs[i].generics[1].ident

AcceptsConvertible(i) ==
    \A from \in ArgTypes : Convertible(from, Inst(namedFields[i].ty)) => Accepts(synth, i, from)

\* C8 as stated: whatever the names of the record's generic parameters, they
\* are reproduced on the impl, each setter has one generic parameter of its
\* own, and the setter accepts every argument convertible into the field type.
C8_AnyGenerics ==
    Generated =>
        /\ GenericsReproduced
        /\ \A i \in 1..Len(synth.funcs) : OwnGenericOnly(i) /\ AcceptsConvertible(i)

\* C8 amended: the generics and where-clause are reproduced on the impl and
\* each setter declares the single parameter VALUE: Into<field type>; the
\* setter accepts every convertible argument provided no generic parameter of
\* the record is itself named VALUE.
C8_GenericsExceptVALUE ==
    Generated =>
        /\ GenericsReproduced
        /\ \A i \in 1..Len(synth.funcs) :
             /\ OwnGenericOnly(i)
             /\ synth.funcs[i].generics[1].ident = "VALUE"
             /\ (\A k \in 1..Len(input.generics.params) :
                    input.generics.params[k].ident # "VALUE") => AcceptsConvertible(i)

C8_Witness ==
    /\ Generated
    /\ input.generics = GenericsTBound
    /\ \E i \in 1..Len(synth.funcs) :
         /\ namedFields[i].ty = "T"
         /\ Accepts(synth, i, "i32")

StripFieldAttrs(ast) ==
    [ast EXCEPT !.body.fields =
        [i \in 1..Len(ast.body.fields) |-> [ast.body.fields[i] EXCEPT !.attrs = <<>>]]]

\* C9: every setter of a unit has the pattern and the visibility of the
\* record's options, and the field-level annotations change neither these
\* nor the names nor the existence of the setters.
C9_UniformPatternAndVisibility ==
    Ran =>
        LET bare == builder_for_struct(StripFieldAttrs(input)) IN
        /\ synth.kind = bare.kind
        /\ Generated =>
             /\ Len(synth.funcs) = Len(bare.funcs)
             /\ \A i \in 1..Len(synth.funcs) :
                  /\ PatternOf(synth.funcs[i]) = options.setter_pattern
                  /\ synth.funcs[i].vis = options.setter_visibility
                  /\ [synth.funcs[i] EXCEPT !.attrs = <<>>] = bare.funcs[i]

C9_Witness ==
    /\ Generated
    /\ options.setter_pattern = "Immutable"
    /\ options.setter_visibility = "Public"
    /\ Len(synth.funcs) = 2
    /\ namedFields[1].attrs = <<SetterAttr>>
    /\ namedFields[2].attrs = <<DocComment>>

(***************************************************************************)
(* Properties of the generated setters (specification SpecRun)             *)
(***************************************************************************)
Converted(f, a) == Into(FieldTy(unit, f), a)

Allocated == Cardinality(Objs \ FreeIds(heap))

RECURSIVE LastSet(_, _, _)
\* the value the calls h[1..k] leave in field f of a record built from the default
LastSet(h, f, k) ==
    IF k = 0 THEN DefaultValue(FieldTy(unit, f))
    ELSE IF h[k].field = f THEN Converted(f, h[k].arg)
    ELSE LastSet(h, f, k - 1)

DistinctFields(h) == \A i, j \in 1..Len(h) : h[i].field = h[j].field => i = j

Calls(h) == {h[i] : i \in 1..Len(h)}

Live == {o \in Objs : heap[o].state = "live"}

\* C10: a setter call replaces the one field by the converted argument and
\* leaves every other field as it was; hence a record carries, for each
\* field, the value of the latest call on it, and the order of calls on
\* distinct fields does not matter.
C10_SetterEffect ==
    /\ last.called =>
         heap[last.result].fields =
             [last.pre EXCEPT ![last.field] = Converted(last.field, last.arg)]
    /\ \A o \in Live : \A f \in SetterNames(unit) :
         heap[o].fields[f] = LastSet(hist[o], f, Len(hist[o]))
    /\ \A o, q \in Live :
         (DistinctFields(hist[o]) /\ DistinctFields(hist[q]) /\ Calls(hist[o]) = Calls(hist[q]))
            => heap[o].fields = heap[q].fields

C10_Witness ==
    \E o, q \in Live :
        /\ Len(hist[o]) = 2 /\ Len(hist[q]) = 2
        /\ hist[o][1].field # hist[o][2].field
        /\ hist[q] = <<hist[o][2], hist[o][1]>>
        /\ hist[o][1].arg.ty = "&str"
        /\ heap[o].fields = heap[q].fields

====
